---------------------------- MODULE Spec2Model ----------------------------
(***************************************************************************)
(* Progressive audio-transcription pipeline of IA Transcreve.              *)
(*                                                                         *)
(* The model follows server/routes.ts (POST /api/transcriptions/upload,    *)
(* DELETE /api/transcriptions/:id, processTranscriptionProgressive) and    *)
(* server/storage.ts (DatabaseStorage).  Every `await` of the background   *)
(* task is a point where other tasks and request handlers interleave, so   *)
(* each awaited storage or external call is one action.                    *)
(*                                                                         *)
(* Spec       concurrent jobs of one user, uploads and deletes             *)
(* SpecJob    one job on its own                                           *)
(* SpecEdit   one job and PUT /api/transcriptions/:id                      *)
(* SpecSplit  splitAudioIntoChunks (server/openai.ts)                      *)
(* SpecGroup  groupSegmentsByMinute (server/openai.ts)                     *)
(* SpecAudio  the whole-file pipeline: processTranscription with           *)
(*            transcribeAudio, its splitter and identifySpeakers           *)
(* SpecChunkCall  transcribeChunkWithTimestamps (server/openai.ts)         *)
(* SpecLabelling  identifySpeakers on segments that may carry labels       *)
(* SpecLedger     concurrent deductCredits and addCredits calls            *)
(* SpecFaulty     one job, storage calls that may throw, fair scheduling   *)
(* SpecClient     one job and the job detail page polling it               *)
(***************************************************************************)
EXTENDS Integers, Sequences, FiniteSets, TLC

(***************************************************************************)
(* Bounds of the model.                                                    *)
(***************************************************************************)
MaxJobs == 2
MaxChunks == 2
MaxCredits == 2
MaxDuration == 7
MaxChunkDuration == 3
MaxSegments == 3
MaxCalls == 2

(***************************************************************************)
(* Program constants.                                                      *)
(***************************************************************************)
CHUNK_DURATION_SECONDS == 600
FreeTrialMaxBytes == 10485760
WordsPerPage == 250
MAX_FILE_SIZE_MB == 25
MinuteSeconds == 60

\* serial("id"): the first transcription gets id 1
FirstId == 1

Users == {"u1"}
JobIds == FirstId..MaxJobs

\* Nullable columns: None is SQL NULL / undefined, Some(x) a present value.
None == << >>
Some(x) == << x >>
IsNull(o) == o = None
Val(o) == o[1]

(***************************************************************************)
(* Text.  A text is a sequence of characters; " " is the only whitespace   *)
(* that occurs.                                                            *)
(***************************************************************************)
Words(n) == [k \in 1..(IF n = 0 THEN 0 ELSE 2 * n - 1) |->
               IF k % 2 = 1 THEN "a" ELSE " "]

\* The speech in one chunk of an uploaded recording: silence, a sentence,
\* or more words than fit on one page.
ChunkTexts == { Words(0), Words(1), Words(WordsPerPage + 1) }

\* fullText.split(/\s+/).filter(Boolean).length
WordCountOf(t) ==
  Cardinality({ k \in 1..Len(t) : t[k] # " " /\ (k = 1 \/ t[k - 1] = " ") })

\* Mutant of PageCountOf: the quotient is rounded down.
PageCountOf_Floor(wordCount) == wordCount \div WordsPerPage

\* Math.ceil(wordCount / 250)
PageCountOf(wordCount) == (wordCount + WordsPerPage - 1) \div WordsPerPage

\* fullText += (fullText ? " " : "") + result.text
AppendChunkText(fullText, text) ==
  fullText \o (IF fullText # << >> THEN << " " >> ELSE << >>) \o text

(***************************************************************************)
(* Files.  A path names the upload of a job, the file converted from it,   *)
(* or a chunk cut out of either.                                           *)
(***************************************************************************)
NoChunk == 0 - 1

\* file.path of the upload that became job id
UploadPath(id) == [job |-> id, converted |-> FALSE, chunk |-> NoChunk]

\* inputPath.replace(/\.[^/.]+$/, "_converted.mp3")
ConvertedPath(inputPath) == [inputPath EXCEPT !.converted = TRUE]

\* `${baseName}_chunk${i}${ext}`
ChunkPath(filePath, i) == [filePath EXCEPT !.chunk = i]

VARIABLES
  users,           \* users table: credits and freeTranscriptionUsed per user
  transcriptions,  \* transcriptions table: id -> row, for the rows that exist
  nextId,          \* serial id the next created transcription gets
  speech,          \* what the speech-to-text API hears in each chunk of the audio
  proc,            \* local state of processTranscriptionProgressive per job
  ledgerCalls,     \* history: ledger mutations applied on behalf of each job
  granted,         \* history: credits the user started with
  files,           \* paths of the files on disk
  response,        \* what the upload route answered to the latest request
  sp,              \* local state of splitAudioIntoChunks
  seg,             \* a call of groupSegmentsByMinute: its argument and result
  ta,              \* local state of processTranscription and transcribeAudio
  tc,              \* a call of transcribeChunkWithTimestamps
  ids,             \* a call of identifySpeakers: its argument, reply and result
  ledger,          \* calls of deductCredits made by other request handlers
  client           \* the job detail page open in the owner's browser

vars == << users, transcriptions, nextId, speech, proc, ledgerCalls, granted,
           files, response, sp, seg, ta, tc, ids, ledger, client >>

Exists(id) == id \in DOMAIN transcriptions

(***************************************************************************)
(* DatabaseStorage                                                         *)
(***************************************************************************)
\* { ...row, ...updates }
Merge(row, updates) ==
  [f \in DOMAIN row \cup DOMAIN updates |->
     IF f \in DOMAIN updates THEN updates[f] ELSE row[f]]

\* db.insert(transcriptions).values(t).returning(), with the column defaults.
\* A row carries the columns the pipeline's progress and settlement depend on;
\* title, file name, duration and the timestamps are not carried.
createTranscription(rows, id, t) ==
  [k \in DOMAIN rows \cup {id} |->
     IF k = id
       THEN Merge([transcriptionText |-> None, segments |-> None,
                   wordCount |-> None,
                   pageCount |-> None, status |-> "pending",
                   isPremiumQuality |-> FALSE, totalChunks |-> None,
                   completedChunks |-> 0, chunkProgress |-> None], t)
       ELSE rows[k]]

\* db.update(transcriptions).set(updates).where(id = id): no row, no effect
updateTranscription(rows, id, updates) ==
  [k \in DOMAIN rows |-> IF k = id THEN Merge(rows[k], updates) ELSE rows[k]]

\* Mutant of CountCompleted: counts every chunk that was started.
CountCompleted_Started(cp) ==
  Cardinality({ k \in 1..Len(cp) : cp[k].status # "pending" })

\* chunkProgress.filter(c => c.status === "completed").length
CountCompleted(cp) ==
  Cardinality({ k \in 1..Len(cp) : cp[k].status = "completed" })

\* updateChunkProgress for an existing row (the caller handles the throw)
updateChunkProgress(rows, id, chunkIndex, progress) ==
  LET old == IF IsNull(rows[id].chunkProgress) THEN << >>
             ELSE Val(rows[id].chunkProgress)
      cp  == [k \in 1..Len(old) |->
                IF k = chunkIndex + 1 THEN Merge(old[k], progress) ELSE old[k]]
  IN  updateTranscription(rows, id,
        [chunkProgress |-> Some(cp), completedChunks |-> CountCompleted(cp)])

\* db.delete(transcriptions).where(id = id)
deleteTranscription(rows, id) == [k \in DOMAIN rows \ {id} |-> rows[k]]

\* set({ freeTranscriptionUsed: true })
markFreeTranscriptionUsed(us, u) ==
  [us EXCEPT ![u].freeTranscriptionUsed = TRUE]

\* Mutant of DeductCreditsThrows: only an empty balance is refused.
DeductCreditsThrows_OnlyWhenEmpty(currentCredits, amount) ==
  currentCredits <= 0 /\ amount > 0

\* deductCredits: the guard on the credits it read
DeductCreditsThrows(currentCredits, amount) == currentCredits < amount

\* deductCredits: set({ credits: currentCredits - amount })
DeductCreditsUpdate(us, u, currentCredits, amount) ==
  [us EXCEPT ![u].credits = currentCredits - amount]

\* addCredits: set({ credits: sql`credits + amount` }), one statement
addCredits(us, u, amount) == [us EXCEPT ![u].credits = @ + amount]

(***************************************************************************)
(* Initial state: no transcription yet; the user may already have bought   *)
(* credits or used the free transcription.                                 *)
(***************************************************************************)
\* the locals of a task that has returned are gone
Return(p, pc, settled) ==
  [pc |-> pc, userId |-> p.userId, useFreeCredit |-> p.useFreeCredit,
   chunks |-> << >>, i |-> 0, fullText |-> << >>, allSegments |-> << >>,
   result |-> << >>, resultSegments |-> << >>,
   pageCount |-> p.pageCount, currentCredits |-> 0, settled |-> settled,
   chunkError |-> p.chunkError]

\* no upload request has been answered yet
NoResponse == [status |-> 0, userId |-> "u1", fileSize |-> 0, fileKept |-> FALSE]

\* splitAudioIntoChunks is not running
IdleSplit ==
  [pc |-> "idle", filePath |-> UploadPath(FirstId), audio |-> 0,
   chunkDuration |-> 0, duration |-> 0, i |-> 0, chunks |-> << >>]

\* groupSegmentsByMinute has not been called
NoGrouping == [pc |-> "idle", segments |-> << >>, grouped |-> << >>]

\* neither processTranscription nor transcribeAudio is running
IdleAudio ==
  [pc |-> "idle", id |-> FirstId, userId |-> "u1", useFreeCredit |-> FALSE,
   audioFilePath |-> UploadPath(FirstId), audio |-> 0, convertedPath |-> None,
   fileSize |-> 0, duration |-> 0, chunks |-> << >>, i |-> 0,
   fullText |-> << >>, allSegments |-> << >>, llm |-> "none",
   segmentsWithSpeakers |-> << >>, result |-> None, pageCount |-> 0]

\* transcribeChunkWithTimestamps has not been called
NoChunkCall ==
  [pc |-> "idle", segments |-> None, startOffset |-> 0, result |-> << >>]

\* identifySpeakers has not been called
NoLabelling ==
  [pc |-> "idle", segments |-> << >>,
   reply |-> [kind |-> "error", speakers |-> << >>], result |-> << >>]

\* no other handler is calling deductCredits
IdleLedger ==
  [c \in 1..MaxCalls |-> [pc |-> "idle", amount |-> 0, currentCredits |-> 0]]

\* the job detail page is not open
ClosedClient == [pc |-> "closed", status |-> None]

\* none of the calls studied on their own is under way
NoCalls ==
  /\ tc = NoChunkCall
  /\ ids = NoLabelling
  /\ ledger = IdleLedger
  /\ client = ClosedClient

\* processTranscriptionProgressive has not been started for the job
IdleProc ==
  [pc |-> "idle", userId |-> "u1", useFreeCredit |-> FALSE, chunks |-> << >>,
   i |-> 0, fullText |-> << >>, allSegments |-> << >>, result |-> << >>,
   resultSegments |-> << >>, pageCount |-> 0,
   currentCredits |-> 0, settled |-> "none", chunkError |-> None]

Init ==
  /\ users \in [Users -> { [credits |-> 0, freeTranscriptionUsed |-> FALSE],
                          [credits |-> 0, freeTranscriptionUsed |-> TRUE],
                          [credits |-> MaxCredits,
                           freeTranscriptionUsed |-> TRUE] }]
  /\ speech \in [1..MaxChunks -> ChunkTexts]
  /\ transcriptions = << >>
  /\ nextId = FirstId
  /\ proc = [j \in JobIds |-> IdleProc]
  /\ ledgerCalls = [j \in JobIds |-> 0]
  /\ granted = [u \in Users |-> users[u].credits]
  /\ files = {}
  /\ response = NoResponse
  /\ sp = IdleSplit
  /\ seg = NoGrouping
  /\ ta = IdleAudio
  /\ NoCalls

(***************************************************************************)
(* POST /api/transcriptions/upload                                         *)
(***************************************************************************)
FileSizes == { FreeTrialMaxBytes, FreeTrialMaxBytes + 1 }

CanUseFreeTrial(user) == ~user.freeTranscriptionUsed

\* Mutant of HasCredits: a balance of zero counts as having credits.
HasCredits_ZeroCounts(user) == user.credits >= 0

\* (user.credits || 0) > 0
HasCredits(user) == user.credits > 0

\* The request is answered 403 or 400 after fs.unlinkSync(file.path), or the
\* row is created, the background task started with file.path and the row
\* returned.
Upload(u, fileSize) ==
  LET user == users[u]
      canUseFreeTrial == CanUseFreeTrial(user)
      hasCredits == HasCredits(user)
      isPremiumQuality == hasCredits /\ ~canUseFreeTrial
      id == nextId
  IN  /\ nextId <= MaxJobs
      /\ IF ~canUseFreeTrial /\ ~hasCredits
           THEN /\ response' = [status |-> 403, userId |-> u,
                                 fileSize |-> fileSize, fileKept |-> FALSE]
                /\ UNCHANGED << transcriptions, nextId, proc, files >>
           ELSE IF canUseFreeTrial /\ fileSize > FreeTrialMaxBytes
           THEN /\ response' = [status |-> 400, userId |-> u,
                                 fileSize |-> fileSize, fileKept |-> FALSE]
                /\ UNCHANGED << transcriptions, nextId, proc, files >>
           ELSE /\ transcriptions' = createTranscription(transcriptions, id,
                     [userId |-> u, fileSize |-> fileSize,
                      status |-> "preparing",
                      isPremiumQuality |-> isPremiumQuality])
                /\ nextId' = nextId + 1
                /\ proc' = [proc EXCEPT ![id] =
                     [IdleProc EXCEPT !.pc = "prepare", !.userId = u,
                                      !.useFreeCredit = canUseFreeTrial]]
                /\ files' = files \cup {UploadPath(id)}
                /\ response' = [status |-> 200, userId |-> u,
                                 fileSize |-> fileSize, fileKept |-> TRUE]
      /\ UNCHANGED << users, speech, ledgerCalls, granted, sp, seg, ta,
               tc, ids, ledger, client >>

(***************************************************************************)
(* DELETE /api/transcriptions/:id                                          *)
(***************************************************************************)
DeleteTranscription(u, id) ==
  /\ Exists(id)
  /\ transcriptions[id].userId = u
  /\ transcriptions' = deleteTranscription(transcriptions, id)
  /\ UNCHANGED << users, nextId, speech, proc, ledgerCalls, granted,
               files, response, sp, seg, ta,
               tc, ids, ledger, client >>

(***************************************************************************)
(* PUT /api/transcriptions/:id                                             *)
(***************************************************************************)
\* texts a user saves: empty, blank, words with leading and repeated blanks,
\* exactly one page, one word more than a page
EditTexts ==
  { Words(0), << " " >>, << " ", "a", " ", " ", "a" >>,
    Words(WordsPerPage), Words(WordsPerPage + 1) }

\* req.body.transcriptionText: undefined (only the title or the segments are
\* saved) or a string
EditBodies == {None} \cup { Some(t) : t \in EditTexts }

PutTranscription(u, id, transcriptionText) ==
  /\ Exists(id)
  /\ transcriptions[id].userId = u
  /\ IF IsNull(transcriptionText)
       THEN UNCHANGED transcriptions
       ELSE LET text == Val(transcriptionText)
                wordCount == WordCountOf(text)
                pageCount == PageCountOf(wordCount)
            IN  transcriptions' = updateTranscription(transcriptions, id,
                  [transcriptionText |-> Some(text),
                   wordCount |-> Some(wordCount),
                   pageCount |-> Some(pageCount)])
  /\ UNCHANGED << users, nextId, speech, proc, ledgerCalls, granted,
                  files, response, sp, seg, ta,
                  tc, ids, ledger, client >>

(***************************************************************************)
(* transcribeChunkWithTimestamps and identifySpeakers: what they make of   *)
(* the answers of the speech-to-text API and of the language model.        *)
(***************************************************************************)
\* seg.start || 0
OrZero(o) == IF IsNull(o) THEN 0 ELSE Val(o)

\* seg.text?.trim() || ""
Trim(t) ==
  LET inked == { k \in 1..Len(t) : t[k] # " " }
  IN  IF inked = {} THEN << >>
      ELSE LET first == CHOOSE k \in inked : \A m \in inked : k <= m
               last  == CHOOSE k \in inked : \A m \in inked : k >= m
           IN  [k \in 1..(last - first + 1) |-> t[first + k - 1]]

\* Mutant of Rebase: the chunk's start offset is not added.
Rebase_NoOffset(raw, startOffset) ==
  [start |-> OrZero(raw.start), end |-> OrZero(raw.end),
   text |-> Trim(raw.text), speaker |-> None]

\* Mutant of Rebase: only the start is moved to the global timeline.
Rebase_EndNotShifted(raw, startOffset) ==
  [start |-> OrZero(raw.start) + startOffset, end |-> OrZero(raw.end),
   text |-> Trim(raw.text), speaker |-> None]

\* one segment of the API's answer on the global timeline
Rebase(raw, startOffset) ==
  [start |-> OrZero(raw.start) + startOffset,
   end |-> OrZero(raw.end) + startOffset,
   text |-> Trim(raw.text), speaker |-> None]

\* (transcription.segments || []).map(...)
RebaseAll(rawSegments, startOffset) ==
  [k \in 1..Len(rawSegments) |-> Rebase(rawSegments[k], startOffset)]

RawSegment(a, b) == [start |-> Some(a), end |-> Some(b), text |-> << " ", "a" >>]

\* answers of the speech-to-text API for one file of at most one chunk
\* length: silence; one segment whose start is left out; two segments of
\* the first minute; two segments up to the end of the chunk, with more
\* words than a page.  The segments of an answer are in time order.
ApiResponses ==
  { [text |-> Words(0), segments |-> << >>],
    [text |-> Words(1),
     segments |-> << [start |-> None, end |-> Some(30),
                      text |-> << "a" >>] >>],
    [text |-> Words(2), segments |-> << RawSegment(0, 30), RawSegment(30, 70) >>],
    [text |-> Words(WordsPerPage + 1),
     segments |-> << RawSegment(30, 70),
                     RawSegment(70, CHUNK_DURATION_SECONDS) >>] }

\* answers of the language model: the call fails, the content is not JSON,
\* JSON without usable speakers, JSON labelling segments by index
LlmReplies ==
  { [kind |-> "error", speakers |-> << >>],
    [kind |-> "malformed", speakers |-> << >>],
    [kind |-> "json", speakers |-> << >>],
    [kind |-> "json",
     speakers |-> << [index |-> 0, speaker |-> "Entrevistador"],
                     [index |-> 1, speaker |-> "Entrevistado 1"] >>],
    [kind |-> "json",
     speakers |-> << [index |-> 1, speaker |-> "Entrevistador"] >>] }

\* Mutant of LabelFor: a segment the model returned no label for loses the
\* label it had.
LabelFor_Overwrites(speakers, i, speaker) ==
  LET hits == { k \in 1..Len(speakers) : speakers[k].index = i }
  IN  IF hits = {} THEN None
      ELSE Some(speakers[CHOOSE k \in hits : \A m \in hits : k >= m].speaker)

\* speakerMap.get(i) || seg.speaker, i counted from 0: the last entry set
\* for i, unless there is none or it is the empty string
LabelFor(speakers, i, speaker) ==
  LET hits == { k \in 1..Len(speakers) : speakers[k].index = i }
      last == CHOOSE k \in hits : \A m \in hits : k >= m
  IN  IF hits = {} THEN speaker
      ELSE IF speakers[last].speaker = "" THEN speaker
      ELSE Some(speakers[last].speaker)

\* Mutant of identifySpeakers: a failed call labels every segment with the
\* generic label.
identifySpeakers_FallbackLabel(segments, reply) ==
  IF Len(segments) = 0 THEN segments
  ELSE IF reply.kind \in {"error", "malformed"}
    THEN [k \in 1..Len(segments) |->
            [segments[k] EXCEPT !.speaker = Some("Falante")]]
    ELSE [k \in 1..Len(segments) |->
            [segments[k] EXCEPT
               !.speaker = LabelFor(reply.speakers, k - 1, @)]]

\* identifySpeakers with the language model answering reply
identifySpeakers(segments, reply) ==
  IF Len(segments) = 0 THEN segments
  ELSE IF reply.kind \in {"error", "malformed"}
    THEN segments
    ELSE [k \in 1..Len(segments) |->
            [segments[k] EXCEPT
               !.speaker = LabelFor(reply.speakers, k - 1, @)]]

\* transcribeSingleChunk(path, startOffset): the segments the chunk
\* transcriber makes of a chunk whose text is text, on the global timeline.
\* A chunk with more than one word is heard as two segments of its first
\* minute.
ChunkSegments(text, startOffset) ==
  RebaseAll(IF WordCountOf(text) = 0 THEN << >>
            ELSE IF WordCountOf(text) = 1 THEN << RawSegment(0, 30) >>
            ELSE << RawSegment(0, 30), RawSegment(30, 70) >>,
            startOffset)

(***************************************************************************)
(* processTranscriptionProgressive, one action per awaited call            *)
(***************************************************************************)
\* prepareAudioChunks: the splitter's chunks, or a tool failure
SplitOffsets(n) == [k \in 1..n |-> (k - 1) * CHUNK_DURATION_SECONDS]

PrepareAudioChunks(j) ==
  /\ proc[j].pc = "prepare"
  /\ \/ \E n \in 1..MaxChunks :
          proc' = [proc EXCEPT ![j].pc = "init", ![j].chunks = SplitOffsets(n)]
     \/ proc' = [proc EXCEPT ![j].pc = "catch"]
  /\ UNCHANGED << users, transcriptions, nextId, speech, ledgerCalls, granted,
               files, response, sp, seg, ta,
               tc, ids, ledger, client >>

\* Mutant of InitialChunkProgress: the entries are numbered from 1.
InitialChunkProgress_OneBased(chunks) ==
  [k \in 1..Len(chunks) |->
     [chunkIndex |-> k, totalChunks |-> Len(chunks),
      status |-> "pending", startOffset |-> chunks[k]]]

\* chunks.map((chunk, i) => ({ chunkIndex: i, totalChunks, status, startOffset }))
InitialChunkProgress(chunks) ==
  [k \in 1..Len(chunks) |->
     [chunkIndex |-> k - 1, totalChunks |-> Len(chunks),
      status |-> "pending", startOffset |-> chunks[k]]]

InitChunkProgress(j) ==
  /\ proc[j].pc = "init"
  /\ transcriptions' = updateTranscription(transcriptions, j,
       [status |-> "processing",
        totalChunks |-> Some(Len(proc[j].chunks)),
        completedChunks |-> 0,
        chunkProgress |-> Some(InitialChunkProgress(proc[j].chunks))])
  /\ proc' = [proc EXCEPT ![j].pc = "loop"]
  /\ UNCHANGED << users, nextId, speech, ledgerCalls, granted,
               files, response, sp, seg, ta,
               tc, ids, ledger, client >>

\* Mutant of LoopDone: the loop stops one chunk early.
LoopDone_OneEarly(p) == p.i >= Len(p.chunks) - 1

\* for (let i = 0; i < chunks.length; i++): the loop has run out
LoopDone(p) == p.i >= Len(p.chunks)

\* Mutant of MarkChunkProcessing: the chunk is never persisted as processing.
MarkChunkProcessing_NotPersisted(j) ==
  /\ proc[j].pc = "loop"
  /\ proc[j].i < Len(proc[j].chunks)
  /\ proc' = [proc EXCEPT ![j].pc = "transcribe"]
  /\ UNCHANGED << users, transcriptions, nextId, speech, ledgerCalls, granted,
               files, response, sp, seg, ta,
               tc, ids, ledger, client >>

\* updateChunkProgress(id, i, { status: "processing" })
MarkChunkProcessing(j) ==
  /\ proc[j].pc = "loop"
  /\ ~LoopDone(proc[j])
  /\ IF Exists(j)
       THEN /\ transcriptions' = updateChunkProgress(transcriptions, j,
                 proc[j].i, [status |-> "processing"])
            /\ proc' = [proc EXCEPT ![j].pc = "transcribe"]
       ELSE /\ proc' = [proc EXCEPT ![j].pc = "catch"]
            /\ UNCHANGED transcriptions
  /\ UNCHANGED << users, nextId, speech, ledgerCalls, granted,
               files, response, sp, seg, ta,
               tc, ids, ledger, client >>

\* transcribeSingleChunk(chunks[i].path, chunks[i].startOffset)
TranscribeSingleChunk(j) ==
  /\ proc[j].pc = "transcribe"
  /\ \/ LET text == speech[proc[j].i + 1]
            segments == ChunkSegments(text, proc[j].chunks[proc[j].i + 1])
        IN  proc' = [proc EXCEPT
                       ![j].pc = "markCompleted",
                       ![j].result = text,
                       ![j].resultSegments = segments,
                       ![j].fullText = AppendChunkText(@, text),
                       ![j].allSegments = @ \o segments]
     \/ proc' = [proc EXCEPT ![j].pc = "markError",
                               ![j].chunkError = Some(proc[j].i)]
  /\ UNCHANGED << users, transcriptions, nextId, speech, ledgerCalls, granted,
               files, response, sp, seg, ta,
               tc, ids, ledger, client >>

\* Mutant of MarkChunkCompleted: the loop moves on without persisting the
\* chunk as completed.
MarkChunkCompleted_NotPersisted(j) ==
  /\ proc[j].pc = "markCompleted"
  /\ proc' = [proc EXCEPT ![j].pc = "loop", ![j].i = @ + 1,
                            ![j].result = << >>,
                            ![j].resultSegments = << >>]
  /\ UNCHANGED << users, transcriptions, nextId, speech, ledgerCalls, granted,
               files, response, sp, seg, ta,
               tc, ids, ledger, client >>

\* updateChunkProgress(id, i, { status: "completed", text: result.text,
\* segments: result.segments });
\* a throw here is caught by the chunk's own catch block
MarkChunkCompleted(j) ==
  /\ proc[j].pc = "markCompleted"
  /\ IF Exists(j)
       THEN /\ transcriptions' = updateChunkProgress(transcriptions, j,
                 proc[j].i,
                 [status |-> "completed", text |-> proc[j].result,
                  segments |-> proc[j].resultSegments])
            /\ proc' = [proc EXCEPT ![j].pc = "loop", ![j].i = @ + 1,
                                      ![j].result = << >>,
                                      ![j].resultSegments = << >>]
       ELSE /\ proc' = [proc EXCEPT ![j].pc = "markError"]
            /\ UNCHANGED transcriptions
  /\ UNCHANGED << users, nextId, speech, ledgerCalls, granted,
               files, response, sp, seg, ta,
               tc, ids, ledger, client >>

\* Mutant of MarkChunkError: the chunk's error is recorded and swallowed, the
\* loop goes on with the next chunk.
MarkChunkError_Swallowed(j) ==
  /\ proc[j].pc = "markError"
  /\ IF Exists(j)
       THEN transcriptions' = updateChunkProgress(transcriptions, j,
              proc[j].i, [status |-> "error", error |-> "chunkError"])
       ELSE UNCHANGED transcriptions
  /\ proc' = [proc EXCEPT ![j].pc = "loop", ![j].i = @ + 1]
  /\ UNCHANGED << users, nextId, speech, ledgerCalls, granted,
               files, response, sp, seg, ta,
               tc, ids, ledger, client >>

\* catch (chunkError): updateChunkProgress(id, i, { status: "error", error });
\* throw chunkError
MarkChunkError(j) ==
  /\ proc[j].pc = "markError"
  /\ IF Exists(j)
       THEN transcriptions' = updateChunkProgress(transcriptions, j,
              proc[j].i, [status |-> "error", error |-> "chunkError"])
       ELSE UNCHANGED transcriptions
  /\ proc' = [proc EXCEPT ![j].pc = "catch"]
  /\ UNCHANGED << users, nextId, speech, ledgerCalls, granted,
               files, response, sp, seg, ta,
               tc, ids, ledger, client >>

\* after the loop: word and page count, then the final updateTranscription
FinalizeTranscription(j) ==
  LET wordCount == WordCountOf(proc[j].fullText)
      pageCount == PageCountOf(wordCount)
  IN  /\ proc[j].pc = "loop"
      /\ LoopDone(proc[j])
      /\ transcriptions' = updateTranscription(transcriptions, j,
           [transcriptionText |-> Some(proc[j].fullText),
            segments |-> Some(proc[j].allSegments),
            wordCount |-> Some(wordCount),
            pageCount |-> Some(pageCount),
            status |-> "completed"])
      /\ proc' = [proc EXCEPT ![j].pc = "settle", ![j].pageCount = pageCount]
      /\ UNCHANGED << users, nextId, speech, ledgerCalls, granted,
               files, response, sp, seg, ta,
               tc, ids, ledger, client >>

\* if (useFreeCredit) await storage.markFreeTranscriptionUsed(userId);
\* then the clean-up of the success path: fs.unlinkSync(filePath)
SettleFreeTranscription(j) ==
  /\ proc[j].pc = "settle"
  /\ proc[j].useFreeCredit
  /\ users' = markFreeTranscriptionUsed(users, proc[j].userId)
  /\ ledgerCalls' = [ledgerCalls EXCEPT ![j] = @ + 1]
  /\ proc' = [proc EXCEPT ![j] = Return(@, "done", "free")]
  /\ files' = files \ {UploadPath(j)}
  /\ UNCHANGED << transcriptions, nextId, speech, granted, response, sp, seg, ta,
               tc, ids, ledger, client >>

\* else await storage.deductCredits(userId, pageCount): getUser and the guard
DeductCreditsRead(j) ==
  LET currentCredits == users[proc[j].userId].credits
  IN  /\ proc[j].pc = "settle"
      /\ ~proc[j].useFreeCredit
      /\ IF DeductCreditsThrows(currentCredits, proc[j].pageCount)
           THEN proc' = [proc EXCEPT ![j].pc = "catch"]
           ELSE proc' = [proc EXCEPT ![j].pc = "deductWrite",
                                     ![j].currentCredits = currentCredits]
      /\ UNCHANGED << users, transcriptions, nextId, speech, ledgerCalls, granted,
               files, response, sp, seg, ta,
               tc, ids, ledger, client >>

\* Mutant of DeductCreditsWrite: the clean-up after the deduction throws and
\* the task ends in its catch block.
DeductCreditsWrite_ThenThrows(j) ==
  /\ proc[j].pc = "deductWrite"
  /\ users' = DeductCreditsUpdate(users, proc[j].userId,
                                  proc[j].currentCredits, proc[j].pageCount)
  /\ ledgerCalls' = [ledgerCalls EXCEPT ![j] = @ + 1]
  /\ proc' = [proc EXCEPT ![j].pc = "catch"]
  /\ UNCHANGED << transcriptions, nextId, speech, granted,
               files, response, sp, seg, ta,
               tc, ids, ledger, client >>

\* deductCredits: the update, then the clean-up of the success path
DeductCreditsWrite(j) ==
  /\ proc[j].pc = "deductWrite"
  /\ users' = DeductCreditsUpdate(users, proc[j].userId,
                                  proc[j].currentCredits, proc[j].pageCount)
  /\ ledgerCalls' = [ledgerCalls EXCEPT ![j] = @ + 1]
  /\ proc' = [proc EXCEPT ![j] = Return(@, "done", "deduct")]
  /\ files' = files \ {UploadPath(j)}
  /\ UNCHANGED << transcriptions, nextId, speech, granted, response, sp, seg, ta,
               tc, ids, ledger, client >>

\* catch (error): updateTranscription(id, { status: "error" }), then
\* fs.unlinkSync(filePath)
HandleError(j) ==
  /\ proc[j].pc = "catch"
  /\ transcriptions' = updateTranscription(transcriptions, j,
                                           [status |-> "error"])
  /\ proc' = [proc EXCEPT ![j] = Return(@, "failed", "none")]
  /\ files' = files \ {UploadPath(j)}
  /\ UNCHANGED << users, nextId, speech, ledgerCalls, granted, response, sp, seg, ta,
               tc, ids, ledger, client >>

Next ==
  \/ \E u \in Users, fileSize \in FileSizes : Upload(u, fileSize)
  \/ \E u \in Users, id \in JobIds : DeleteTranscription(u, id)
  \/ \E j \in JobIds : PrepareAudioChunks(j)
  \/ \E j \in JobIds : InitChunkProgress(j)
  \/ \E j \in JobIds : MarkChunkProcessing(j)
  \/ \E j \in JobIds : TranscribeSingleChunk(j)
  \/ \E j \in JobIds : MarkChunkCompleted(j)
  \/ \E j \in JobIds : MarkChunkError(j)
  \/ \E j \in JobIds : FinalizeTranscription(j)
  \/ \E j \in JobIds : SettleFreeTranscription(j)
  \/ \E j \in JobIds : DeductCreditsRead(j)
  \/ \E j \in JobIds : DeductCreditsWrite(j)
  \/ \E j \in JobIds : HandleError(j)

Spec == Init /\ [][Next]_vars

(***************************************************************************)
(* One job on its own: the first upload, its background task and the       *)
(* owner's delete request.                                                 *)
(***************************************************************************)
UploadFirst(u, fileSize) == nextId = FirstId /\ Upload(u, fileSize)

NextJob ==
  \/ \E u \in Users, fileSize \in FileSizes : UploadFirst(u, fileSize)
  \/ \E u \in Users : DeleteTranscription(u, FirstId)
  \/ PrepareAudioChunks(FirstId)
  \/ InitChunkProgress(FirstId)
  \/ MarkChunkProcessing(FirstId)
  \/ TranscribeSingleChunk(FirstId)
  \/ MarkChunkCompleted(FirstId)
  \/ MarkChunkError(FirstId)
  \/ FinalizeTranscription(FirstId)
  \/ SettleFreeTranscription(FirstId)
  \/ DeductCreditsRead(FirstId)
  \/ DeductCreditsWrite(FirstId)
  \/ HandleError(FirstId)

SpecJob == Init /\ [][NextJob]_vars

(***************************************************************************)
(* One job and its owner saving edits of it.                               *)
(***************************************************************************)
NextEdit ==
  \/ NextJob
  \/ \E u \in Users, body \in EditBodies : PutTranscription(u, FirstId, body)

SpecEdit == Init /\ [][NextEdit]_vars

(***************************************************************************)
(* splitAudioIntoChunks(filePath, chunkDuration), one action per awaited   *)
(* external tool.  sp.audio is the true length of the file in seconds.     *)
(***************************************************************************)
\* Mutant of NumChunks: the quotient is rounded down.
NumChunks_Floor(duration, chunkDuration) == duration \div chunkDuration

\* Math.ceil(duration / chunkDuration)
NumChunks(duration, chunkDuration) ==
  (duration + chunkDuration - 1) \div chunkDuration

\* getAudioDuration: the length ffprobe prints, or 0 when ffprobe fails
GetAudioDuration(audio) == {audio, 0}

\* const duration = await getAudioDuration(filePath), the single-chunk return
\* or the start of the loop
SplitProbe ==
  /\ sp.pc = "probe"
  /\ \E duration \in GetAudioDuration(sp.audio) :
       IF duration <= sp.chunkDuration
         THEN sp' = [sp EXCEPT !.pc = "returned", !.duration = duration,
                       !.chunks = << [path |-> sp.filePath,
                                      startOffset |-> 0] >>]
         ELSE sp' = [sp EXCEPT !.pc = "exec", !.duration = duration,
                               !.i = 0, !.chunks = << >>]
  /\ UNCHANGED << users, transcriptions, nextId, speech, proc, ledgerCalls,
                  granted, files, response, seg, ta,
                  tc, ids, ledger, client >>

\* one iteration of the loop: ffmpeg cuts chunk i, or fails and the call throws
SplitExec ==
  LET startTime == sp.i * sp.chunkDuration
      chunkPath == ChunkPath(sp.filePath, sp.i)
      numChunks == NumChunks(sp.duration, sp.chunkDuration)
  IN  /\ sp.pc = "exec"
      /\ sp.i < numChunks
      /\ \/ /\ files' = files \cup {chunkPath}
            /\ sp' = [sp EXCEPT
                        !.chunks = Append(@, [path |-> chunkPath,
                                              startOffset |-> startTime]),
                        !.i = @ + 1,
                        !.pc = IF sp.i + 1 < numChunks THEN "exec"
                               ELSE "returned"]
         \/ /\ sp' = [sp EXCEPT !.pc = "thrown"]
            /\ UNCHANGED files
      /\ UNCHANGED << users, transcriptions, nextId, speech, proc, ledgerCalls,
                      granted, response, seg, ta,
                      tc, ids, ledger, client >>

\* the pipeline at rest: no job, no request answered
NoPipeline ==
  /\ users = [u \in Users |-> [credits |-> 0, freeTranscriptionUsed |-> FALSE]]
  /\ speech = [k \in 1..MaxChunks |-> Words(0)]
  /\ transcriptions = << >>
  /\ nextId = FirstId
  /\ proc = [j \in JobIds |-> IdleProc]
  /\ ledgerCalls = [j \in JobIds |-> 0]
  /\ granted = [u \in Users |-> 0]
  /\ files = {}
  /\ response = NoResponse

\* the calls splitAudioIntoChunks(filePath, chunkDuration) that are explored:
\* short files against short chunk lengths, and the pipeline's own chunk
\* length against files around its multiples
SplitCalls ==
  ((0..MaxDuration) \X (1..MaxChunkDuration))
    \cup ({ CHUNK_DURATION_SECONDS - 1, CHUNK_DURATION_SECONDS,
            CHUNK_DURATION_SECONDS + 1, 2 * CHUNK_DURATION_SECONDS,
            2 * CHUNK_DURATION_SECONDS + 1 } \X {CHUNK_DURATION_SECONDS})

InitSplit ==
  /\ NoPipeline
  /\ seg = NoGrouping
  /\ ta = IdleAudio
  /\ NoCalls
  /\ \E call \in SplitCalls :
       sp = [IdleSplit EXCEPT !.pc = "probe", !.audio = call[1],
                              !.chunkDuration = call[2]]

NextSplit == SplitProbe \/ SplitExec

SpecSplit == InitSplit /\ [][NextSplit]_vars

(***************************************************************************)
(* groupSegmentsByMinute(segments).  A segment is a record of start, end,  *)
(* text and speaker; a segment without a speaker label has speaker None.   *)
(***************************************************************************)
\* Mutant of MinuteOf: the buckets are half minutes.
MinuteOf_HalfMinute(s) == s.start \div (MinuteSeconds \div 2)

\* Math.floor(seg.start / 60)
MinuteOf(s) == s.start \div MinuteSeconds

\* Mutant of MergeSegment: the end of the merged segment is not extended.
MergeSegment_KeepsEnd(currentSegment, s) ==
  [start |-> currentSegment.start,
   end |-> currentSegment.end,
   text |-> currentSegment.text \o << " " >> \o s.text,
   speaker |-> IF ~IsNull(s.speaker) /\ s.speaker # currentSegment.speaker
                 THEN None ELSE currentSegment.speaker]

\* the body of `if (segMinute === currentMinute)`
MergeSegment(currentSegment, s) ==
  [start |-> currentSegment.start,
   end |-> s.end,
   text |-> currentSegment.text \o << " " >> \o s.text,
   speaker |-> IF ~IsNull(s.speaker) /\ s.speaker # currentSegment.speaker
                 THEN None ELSE currentSegment.speaker]

\* the loop from index i on (1-based), then the final push
RECURSIVE GroupFrom(_, _, _, _, _)
GroupFrom(segments, i, currentMinute, currentSegment, groupedSegments) ==
  IF i > Len(segments)
    THEN Append(groupedSegments, currentSegment)
    ELSE LET s == segments[i]
             segMinute == MinuteOf(s)
         IN  IF segMinute = currentMinute
               THEN GroupFrom(segments, i + 1, currentMinute,
                              MergeSegment(currentSegment, s), groupedSegments)
               ELSE GroupFrom(segments, i + 1, segMinute, s,
                              Append(groupedSegments, currentSegment))

groupSegmentsByMinute(segments) ==
  IF Len(segments) = 0
    THEN << >>
    ELSE GroupFrom(segments, 2, MinuteOf(segments[1]), segments[1], << >>)

\* the call groupSegmentsByMinute(seg.segments)
GroupSegments ==
  /\ seg.pc = "call"
  /\ seg' = [seg EXCEPT !.pc = "grouped",
                         !.grouped = groupSegmentsByMinute(seg.segments)]
  /\ UNCHANGED << users, transcriptions, nextId, speech, proc, ledgerCalls,
                  granted, files, response, sp, ta,
                  tc, ids, ledger, client >>

\* the segments a call is tried with: starts and ends in the first two
\* minutes, with or without a speaker label, in any order
SegmentTimes == {0, 30, 70}
Speakers == {"Entrevistador", "Entrevistado 1"}
SomeSegments ==
  { s \in [start : SegmentTimes, end : SegmentTimes, text : { << "a" >> },
           speaker : {None} \cup { Some(n) : n \in Speakers }] :
      s.start <= s.end }

\* two segments of the first minute by one speaker, then one of the second
\* minute by another
ScenarioD ==
  << [start |-> 5, end |-> 10, text |-> << "a" >>,
      speaker |-> Some("Entrevistador")],
     [start |-> 50, end |-> 55, text |-> << "b" >>,
      speaker |-> Some("Entrevistador")],
     [start |-> 70, end |-> 75, text |-> << "c" >>,
      speaker |-> Some("Entrevistado 1")] >>

SegmentLists ==
  UNION { [1..n -> SomeSegments] : n \in 0..MaxSegments } \cup {ScenarioD}

InitGroup ==
  /\ NoPipeline
  /\ sp = IdleSplit
  /\ ta = IdleAudio
  /\ NoCalls
  /\ \E segments \in SegmentLists :
       seg = [NoGrouping EXCEPT !.pc = "call", !.segments = segments]

NextGroup == GroupSegments

SpecGroup == InitGroup /\ [][NextGroup]_vars

(***************************************************************************)
(* The whole-file pipeline: the upload route that starts                   *)
(* processTranscription, and processTranscription with transcribeAudio,    *)
(* one action per awaited call.  ta.audio is the true length of the        *)
(* recording in seconds.                                                   *)
(***************************************************************************)
AudioDurations ==
  {CHUNK_DURATION_SECONDS \div 2}
    \cup { k * CHUNK_DURATION_SECONDS : k \in 1..MaxChunks }
    \cup { k * CHUNK_DURATION_SECONDS + 1 : k \in 1..(MaxChunks - 1) }

\* stats.size of a converted file, at and above the limit of one API call
ConvertedSizes ==
  { MAX_FILE_SIZE_MB * 1024 * 1024, MAX_FILE_SIZE_MB * 1024 * 1024 + 1 }

UploadWholeFile(u, fileSize) ==
  LET user == users[u]
      canUseFreeTrial == CanUseFreeTrial(user)
      hasCredits == HasCredits(user)
      id == nextId
  IN  /\ nextId = FirstId
      /\ ta.pc = "idle"
      /\ IF ~canUseFreeTrial /\ ~hasCredits
           THEN /\ response' = [status |-> 403, userId |-> u,
                                 fileSize |-> fileSize, fileKept |-> FALSE]
                /\ UNCHANGED << transcriptions, nextId, files, ta >>
           ELSE IF canUseFreeTrial /\ fileSize > FreeTrialMaxBytes
           THEN /\ response' = [status |-> 400, userId |-> u,
                                 fileSize |-> fileSize, fileKept |-> FALSE]
                /\ UNCHANGED << transcriptions, nextId, files, ta >>
           ELSE /\ transcriptions' = createTranscription(transcriptions, id,
                     [userId |-> u, fileSize |-> fileSize,
                      status |-> "processing"])
                /\ nextId' = nextId + 1
                /\ files' = files \cup {UploadPath(id)}
                /\ response' = [status |-> 200, userId |-> u,
                                 fileSize |-> fileSize, fileKept |-> TRUE]
                /\ \E audio \in AudioDurations :
                     ta' = [IdleAudio EXCEPT
                              !.pc = "convert", !.id = id, !.userId = u,
                              !.useFreeCredit = canUseFreeTrial,
                              !.audioFilePath = UploadPath(id),
                              !.fileSize = fileSize, !.audio = audio]
      /\ UNCHANGED << users, speech, proc, ledgerCalls, granted, sp, seg,
               tc, ids, ledger, client >>

\* the finally block of transcribeAudio
FinallyCleanup(disk, convertedPath, chunks, audioFilePath) ==
  LET converted ==
        IF ~IsNull(convertedPath) /\ Val(convertedPath) # audioFilePath
          THEN {Val(convertedPath)} ELSE {}
      chunkFiles ==
        { chunks[k].path : k \in { m \in 1..Len(chunks) :
            IsNull(convertedPath) \/ chunks[m].path # Val(convertedPath) } }
  IN  disk \ (converted \cup chunkFiles)

\* an awaited call of transcribeAudio throws: its finally block runs and
\* processTranscription is in its catch block
TaThrow ==
  /\ ta' = [ta EXCEPT !.pc = "catch"]
  /\ files' = FinallyCleanup(files, ta.convertedPath, ta.chunks,
                             ta.audioFilePath)

\* convertedPath = await convertToMp3(audioFilePath): the upload itself when
\* its format is supported and it is small enough, else the file ffmpeg
\* writes, or ffmpeg fails
ConvertToMp3 ==
  /\ ta.pc = "convert"
  /\ \/ /\ ta' = [ta EXCEPT !.pc = "probe",
                              !.convertedPath = Some(ta.audioFilePath)]
        /\ UNCHANGED files
     \/ /\ ta' = [ta EXCEPT
                     !.pc = "probe",
                     !.convertedPath = Some(ConvertedPath(ta.audioFilePath))]
        /\ files' = files \cup {ConvertedPath(ta.audioFilePath)}
     \/ TaThrow
  /\ UNCHANGED << users, transcriptions, nextId, speech, proc, ledgerCalls,
                  granted, response, sp, seg,
                  tc, ids, ledger, client >>

\* duration = await getAudioDuration(convertedPath), the size of the file,
\* and the choice between splitting and one call for the whole file
ProbeConverted ==
  /\ ta.pc = "probe"
  /\ \E duration \in GetAudioDuration(ta.audio),
        size \in (IF Val(ta.convertedPath) = ta.audioFilePath
                    THEN {ta.fileSize} ELSE ConvertedSizes) :
       IF duration > CHUNK_DURATION_SECONDS
            \/ size > MAX_FILE_SIZE_MB * 1024 * 1024
         THEN /\ ta' = [ta EXCEPT !.pc = "split", !.duration = duration]
              /\ sp' = [IdleSplit EXCEPT
                          !.pc = "probe", !.filePath = Val(ta.convertedPath),
                          !.audio = ta.audio,
                          !.chunkDuration = CHUNK_DURATION_SECONDS]
         ELSE /\ ta' = [ta EXCEPT !.pc = "whole", !.duration = duration]
              /\ UNCHANGED sp
  /\ UNCHANGED << users, transcriptions, nextId, speech, proc, ledgerCalls,
                  granted, files, response, seg,
                  tc, ids, ledger, client >>

\* chunks = await splitAudioIntoChunks(...) has returned
SplitReturned ==
  /\ ta.pc = "split"
  /\ sp.pc = "returned"
  /\ ta' = [ta EXCEPT !.pc = "loop", !.chunks = sp.chunks, !.i = 0]
  /\ sp' = IdleSplit
  /\ UNCHANGED << users, transcriptions, nextId, speech, proc, ledgerCalls,
                  granted, files, response, seg,
                  tc, ids, ledger, client >>

\* splitAudioIntoChunks has thrown: chunks is still the empty list
SplitThrown ==
  /\ ta.pc = "split"
  /\ sp.pc = "thrown"
  /\ TaThrow
  /\ sp' = IdleSplit
  /\ UNCHANGED << users, transcriptions, nextId, speech, proc, ledgerCalls,
                  granted, response, seg,
                  tc, ids, ledger, client >>

\* one iteration of the loop over the chunks:
\* await transcribeChunkWithTimestamps(chunks[i].path, chunks[i].startOffset)
TranscribeChunk ==
  /\ ta.pc = "loop"
  /\ ta.i < Len(ta.chunks)
  /\ \/ /\ \E transcription \in ApiResponses :
              ta' = [ta EXCEPT
                       !.fullText = AppendChunkText(@, transcription.text),
                       !.allSegments =
                          @ \o RebaseAll(transcription.segments,
                                         ta.chunks[ta.i + 1].startOffset),
                       !.i = @ + 1,
                       !.pc = IF ta.i + 1 < Len(ta.chunks) THEN "loop"
                              ELSE "identify"]
        /\ UNCHANGED files
     \/ TaThrow
  /\ UNCHANGED << users, transcriptions, nextId, speech, proc, ledgerCalls,
                  granted, response, sp, seg,
                  tc, ids, ledger, client >>

\* await transcribeChunkWithTimestamps(convertedPath), start offset 0
TranscribeWhole ==
  /\ ta.pc = "whole"
  /\ \/ /\ \E transcription \in ApiResponses :
              ta' = [ta EXCEPT
                       !.fullText = transcription.text,
                       !.allSegments = RebaseAll(transcription.segments, 0),
                       !.pc = "identify"]
        /\ UNCHANGED files
     \/ TaThrow
  /\ UNCHANGED << users, transcriptions, nextId, speech, proc, ledgerCalls,
                  granted, response, sp, seg,
                  tc, ids, ledger, client >>

\* await identifySpeakers(allSegments), groupSegmentsByMinute, the return
\* value and the finally block.  No call is made for an empty list.
IdentifySpeakers ==
  /\ ta.pc = "identify"
  /\ \E reply \in (IF Len(ta.allSegments) = 0
                      THEN {[kind |-> "none", speakers |-> << >>]}
                      ELSE LlmReplies) :
       LET segmentsWithSpeakers == identifySpeakers(ta.allSegments, reply)
           groupedSegments == groupSegmentsByMinute(segmentsWithSpeakers)
       IN  ta' = [ta EXCEPT
                    !.pc = "update",
                    !.llm = reply.kind,
                    !.segmentsWithSpeakers = segmentsWithSpeakers,
                    !.result = Some([text |-> ta.fullText,
                                     segments |-> groupedSegments])]
  /\ files' = FinallyCleanup(files, ta.convertedPath, ta.chunks,
                             ta.audioFilePath)
  /\ UNCHANGED << users, transcriptions, nextId, speech, proc, ledgerCalls,
                  granted, response, sp, seg,
                  tc, ids, ledger, client >>

\* processTranscription: the word and page count of result.text and the
\* update that completes the job
CompleteWholeFile ==
  LET text == Val(ta.result).text
      wordCount == WordCountOf(text)
      pageCount == PageCountOf(wordCount)
  IN  /\ ta.pc = "update"
      /\ transcriptions' = updateTranscription(transcriptions, ta.id,
           [transcriptionText |-> Some(text),
            wordCount |-> Some(wordCount),
            pageCount |-> Some(pageCount),
            status |-> "completed"])
      /\ ta' = [ta EXCEPT !.pc = "settle", !.pageCount = pageCount]
      /\ UNCHANGED << users, nextId, speech, proc, ledgerCalls, granted,
                      files, response, sp, seg,
                      tc, ids, ledger, client >>

\* processTranscription: markFreeTranscriptionUsed or deductCredits, then
\* fs.unlinkSync(filePath); no other task touches the user meanwhile
SettleWholeFile ==
  LET u == ta.userId
      currentCredits == users[u].credits
  IN  /\ ta.pc = "settle"
      /\ IF ~ta.useFreeCredit
              /\ DeductCreditsThrows(currentCredits, ta.pageCount)
           THEN /\ ta' = [ta EXCEPT !.pc = "catch"]
                /\ UNCHANGED << users, ledgerCalls, files >>
           ELSE /\ users' = IF ta.useFreeCredit
                               THEN markFreeTranscriptionUsed(users, u)
                               ELSE DeductCreditsUpdate(users, u,
                                      currentCredits, ta.pageCount)
                /\ ledgerCalls' = [ledgerCalls EXCEPT ![ta.id] = @ + 1]
                /\ files' = files \ {ta.audioFilePath}
                /\ ta' = [ta EXCEPT !.pc = "done"]
      /\ UNCHANGED << transcriptions, nextId, speech, proc, granted,
                      response, sp, seg, tc, ids, ledger, client >>

\* processTranscription: catch (error), updateTranscription(id, { status:
\* "error" }) and fs.unlinkSync(filePath)
CatchWholeFile ==
  /\ ta.pc = "catch"
  /\ transcriptions' = updateTranscription(transcriptions, ta.id,
                                           [status |-> "error"])
  /\ files' = files \ {ta.audioFilePath}
  /\ ta' = [ta EXCEPT !.pc = "failed"]
  /\ UNCHANGED << users, nextId, speech, proc, ledgerCalls, granted,
                  response, sp, seg, tc, ids, ledger, client >>

InitAudio ==
  /\ users \in [Users -> { [credits |-> 0, freeTranscriptionUsed |-> FALSE],
                          [credits |-> 0, freeTranscriptionUsed |-> TRUE],
                          [credits |-> MaxCredits,
                           freeTranscriptionUsed |-> TRUE] }]
  /\ speech = [k \in 1..MaxChunks |-> Words(0)]
  /\ transcriptions = << >>
  /\ nextId = FirstId
  /\ proc = [j \in JobIds |-> IdleProc]
  /\ ledgerCalls = [j \in JobIds |-> 0]
  /\ granted = [u \in Users |-> users[u].credits]
  /\ files = {}
  /\ response = NoResponse
  /\ sp = IdleSplit
  /\ seg = NoGrouping
  /\ ta = IdleAudio
  /\ NoCalls

NextAudio ==
  \/ \E u \in Users, fileSize \in FileSizes : UploadWholeFile(u, fileSize)
  \/ ConvertToMp3
  \/ ProbeConverted
  \/ SplitProbe
  \/ SplitExec
  \/ SplitReturned
  \/ SplitThrown
  \/ TranscribeChunk
  \/ TranscribeWhole
  \/ IdentifySpeakers
  \/ CompleteWholeFile
  \/ SettleWholeFile
  \/ CatchWholeFile

SpecAudio == InitAudio /\ [][NextAudio]_vars

(***************************************************************************)
(* transcribeChunkWithTimestamps(chunkPath, startOffset) on its own: the   *)
(* call to the speech-to-text API, then the map over its segments.         *)
(***************************************************************************)
\* the timestamps of a segment of the API's answer, each present or left out
RawStarts == { None, Some(0), Some(30) }
RawEnds == { None, Some(30), Some(70) }
RawSegments == [start : RawStarts, end : RawEnds, text : { << " ", "a" >> }]

\* transcription.segments: left out, or a list of segments
RawSegmentLists ==
  {None} \cup { Some(l) : l \in UNION { [1..n -> RawSegments] :
                                         n \in 0..MaxSegments } }

\* the start offsets of chunks
ChunkOffsets == { k * CHUNK_DURATION_SECONDS : k \in 0..MaxChunks }

\* await openai.audio.transcriptions.create(...), which may throw, then
\* (transcription.segments || []).map(...)
TranscribeChunkWithTimestamps ==
  /\ tc.pc = "call"
  /\ \/ tc' = [tc EXCEPT
                  !.pc = "returned",
                  !.result = RebaseAll(IF IsNull(tc.segments) THEN << >>
                                       ELSE Val(tc.segments),
                                       tc.startOffset)]
     \/ tc' = [tc EXCEPT !.pc = "thrown"]
  /\ UNCHANGED << users, transcriptions, nextId, speech, proc, ledgerCalls,
                  granted, files, response, sp, seg, ta, ids, ledger, client >>

InitChunkCall ==
  /\ NoPipeline
  /\ sp = IdleSplit
  /\ seg = NoGrouping
  /\ ta = IdleAudio
  /\ ids = NoLabelling
  /\ ledger = IdleLedger
  /\ client = ClosedClient
  /\ \E segments \in RawSegmentLists, startOffset \in ChunkOffsets :
       tc = [NoChunkCall EXCEPT !.pc = "call", !.segments = segments,
                                !.startOffset = startOffset]

NextChunkCall == TranscribeChunkWithTimestamps

SpecChunkCall == InitChunkCall /\ [][NextChunkCall]_vars

(***************************************************************************)
(* identifySpeakers(segments) on its own, for segments that may already    *)
(* carry a label.                                                          *)
(***************************************************************************)
\* further answers of the language model: only segment 0 labelled, two
\* entries for segment 0, an empty label, an index past the list
LabelReplies ==
  LlmReplies \cup
  { [kind |-> "json",
     speakers |-> << [index |-> 0, speaker |-> "Entrevistador"] >>],
    [kind |-> "json",
     speakers |-> << [index |-> 0, speaker |-> "Entrevistador"],
                     [index |-> 0, speaker |-> "Falante"] >>],
    [kind |-> "json",
     speakers |-> << [index |-> 0, speaker |-> ""],
                     [index |-> 1, speaker |-> "Falante"] >>],
    [kind |-> "json",
     speakers |-> << [index |-> MaxSegments + 1, speaker |-> "Falante"] >>] }

LabelledSegments == { s \in SomeSegments : s.end = 70 }

LabelledLists ==
  UNION { [1..n -> LabelledSegments] : n \in 0..MaxSegments }

\* the call identifySpeakers(ids.segments), the model answering ids.reply
IdentifySpeakersCall ==
  /\ ids.pc = "call"
  /\ ids' = [ids EXCEPT !.pc = "returned",
                         !.result = identifySpeakers(ids.segments, ids.reply)]
  /\ UNCHANGED << users, transcriptions, nextId, speech, proc, ledgerCalls,
                  granted, files, response, sp, seg, ta, tc, ledger, client >>

InitLabelling ==
  /\ NoPipeline
  /\ sp = IdleSplit
  /\ seg = NoGrouping
  /\ ta = IdleAudio
  /\ tc = NoChunkCall
  /\ ledger = IdleLedger
  /\ client = ClosedClient
  /\ \E segments \in LabelledLists, reply \in LabelReplies :
       ids = [NoLabelling EXCEPT !.pc = "call", !.segments = segments,
                                !.reply = reply]

NextLabelling == IdentifySpeakersCall

SpecLabelling == InitLabelling /\ [][NextLabelling]_vars

(***************************************************************************)
(* The credit ledger on its own: handlers calling deductCredits            *)
(* concurrently, each call a read (getUser and the guard) and a write, and *)
(* the admin routes calling addCredits.                                    *)
(***************************************************************************)
\* the balance is not granted beyond this
MaxBalance == 2 * MaxCredits

\* amounts deducted: a page count, 0 for an empty transcript
DeductAmounts == 0..MaxCredits

\* amounts granted: z.number().int().positive()
GrantAmounts == 1..MaxCredits

\* deductCredits(u, amount): getUser, then the guard on what was read
LedgerRead(c, u, amount) ==
  LET currentCredits == users[u].credits
  IN  /\ ledger[c].pc # "write"
      /\ IF DeductCreditsThrows(currentCredits, amount)
           THEN ledger' = [ledger EXCEPT ![c] =
                  [pc |-> "thrown", amount |-> amount, currentCredits |-> 0]]
           ELSE ledger' = [ledger EXCEPT ![c] =
                  [pc |-> "write", amount |-> amount,
                   currentCredits |-> currentCredits]]
      /\ UNCHANGED << users, transcriptions, nextId, speech, proc,
                      ledgerCalls, granted, files, response, sp, seg, ta,
                      tc, ids, client >>

\* deductCredits: the update with the credits read before
LedgerWrite(c, u) ==
  /\ ledger[c].pc = "write"
  /\ users' = DeductCreditsUpdate(users, u, ledger[c].currentCredits,
                                  ledger[c].amount)
  /\ ledger' = [ledger EXCEPT ![c].pc = "returned", ![c].currentCredits = 0]
  /\ UNCHANGED << transcriptions, nextId, speech, proc, ledgerCalls, granted,
                  files, response, sp, seg, ta, tc, ids, client >>

\* POST /api/admin/credits/manual: storage.addCredits(userId, amount)
AddCredits(u, amount) ==
  /\ users[u].credits + amount <= MaxBalance
  /\ users' = addCredits(users, u, amount)
  /\ UNCHANGED << transcriptions, nextId, speech, proc, ledgerCalls, granted,
                  files, response, sp, seg, ta, tc, ids, ledger, client >>

InitLedger ==
  /\ NoPipeline
  /\ sp = IdleSplit
  /\ seg = NoGrouping
  /\ ta = IdleAudio
  /\ NoCalls

NextLedger ==
  \/ \E c \in 1..MaxCalls, u \in Users, amount \in DeductAmounts :
       LedgerRead(c, u, amount)
  \/ \E c \in 1..MaxCalls, u \in Users : LedgerWrite(c, u)
  \/ \E u \in Users, amount \in GrantAmounts : AddCredits(u, amount)

SpecLedger == InitLedger /\ [][NextLedger]_vars

(***************************************************************************)
(* The background task under the scheduling of the event loop: a task      *)
(* that awaits a call goes on when the call has returned or thrown.  The   *)
(* storage calls may throw as well.                                        *)
(***************************************************************************)
\* the steps of processTranscriptionProgressive for job j
PipelineStep(j) ==
  \/ PrepareAudioChunks(j)
  \/ InitChunkProgress(j)
  \/ MarkChunkProcessing(j)
  \/ TranscribeSingleChunk(j)
  \/ MarkChunkCompleted(j)
  \/ MarkChunkError(j)
  \/ FinalizeTranscription(j)
  \/ SettleFreeTranscription(j)
  \/ DeductCreditsRead(j)
  \/ DeductCreditsWrite(j)
  \/ HandleError(j)

\* where a storage call that throws takes the task: out of the chunk's try
\* block into its catch block, from anywhere else in the outer try block
\* into the outer catch block
ThrownTo(pc) == IF pc = "markCompleted" THEN "markError" ELSE "catch"

\* the storage call the task awaits throws.  Thrown by the
\* updateTranscription of the outer catch block, the error leaves the task:
\* nothing awaits the promise of processTranscriptionProgressive, the row is
\* not written and the clean-up after the call is not reached.
StorageThrows(j) ==
  /\ proc[j].pc \in {"init", "loop", "markCompleted", "markError", "settle",
                     "deductWrite", "catch"}
  /\ proc' = [proc EXCEPT ![j] =
       IF proc[j].pc = "catch" THEN Return(proc[j], "crashed", "none")
       ELSE [proc[j] EXCEPT !.pc = ThrownTo(proc[j].pc)]]
  /\ UNCHANGED << users, transcriptions, nextId, speech, ledgerCalls, granted,
                  files, response, sp, seg, ta, tc, ids, ledger, client >>

NextFaulty == NextJob \/ StorageThrows(FirstId)

SpecFaulty ==
  Init /\ [][NextFaulty]_vars /\ WF_vars(PipelineStep(FirstId))

\* the same task with storage calls that do not throw
SpecJobFair == SpecJob /\ WF_vars(PipelineStep(FirstId))

(***************************************************************************)
(* The job detail page: useQuery fetches GET /api/transcriptions/:id when  *)
(* the page opens and again every 2 s while refetchInterval returns 2000.  *)
(***************************************************************************)
\* data?.status === "processing" ? 2000 : false
RefetchInterval(status) == IF status = "processing" THEN "polling" ELSE "stopped"

\* GET /api/transcriptions/:id answered with the row
FetchTranscription(id) ==
  /\ Exists(id)
  /\ client' = [pc |-> RefetchInterval(transcriptions[id].status),
                status |-> Some(transcriptions[id].status)]
  /\ UNCHANGED << users, transcriptions, nextId, speech, proc, ledgerCalls,
                  granted, files, response, sp, seg, ta, tc, ids, ledger >>

\* upload.tsx: setLocation(`/transcricoes/${data.id}`), the page's first fetch
OpenDetailPage(id) ==
  /\ client.pc = "closed"
  /\ response.status = 200
  /\ FetchTranscription(id)

\* the interval set by refetchInterval has passed
Refetch(id) ==
  /\ client.pc = "polling"
  /\ FetchTranscription(id)

NextClient ==
  \/ \E u \in Users, fileSize \in FileSizes : UploadFirst(u, fileSize)
  \/ PipelineStep(FirstId)
  \/ OpenDetailPage(FirstId)
  \/ Refetch(FirstId)

SpecClient ==
  /\ Init
  /\ [][NextClient]_vars
  /\ WF_vars(PipelineStep(FirstId))
  /\ WF_vars(OpenDetailPage(FirstId))
  /\ WF_vars(Refetch(FirstId))

(***************************************************************************)
(* Properties                                                              *)
(***************************************************************************)
Started(j) == proc[j].pc # "idle"
HasChunkState(j) == Exists(j) /\ ~IsNull(transcriptions[j].chunkProgress)
ChunkStateOf(j) == Val(transcriptions[j].chunkProgress)
ChunkStateOfNext(j) == Val(transcriptions'[j].chunkProgress)
WithStatus(cp, st) == { k \in 1..Len(cp) : cp[k].status = st }

StatusRank(st) ==
  CASE st = "pending" -> 0
    [] st = "preparing" -> 1
    [] st = "processing" -> 2
    [] st = "completed" -> 3
    [] st = "error" -> 3

\* C1: the status of a job only moves forward along pending -> preparing ->
\* processing -> {completed, error}; once it is completed or error no other
\* status is written to the job.
C1_StatusOnlyMovesForward ==
  [][\A j \in JobIds :
       (Exists(j) /\ j \in DOMAIN transcriptions'
          /\ transcriptions'[j].status # transcriptions[j].status)
       => StatusRank(transcriptions[j].status)
            < StatusRank(transcriptions'[j].status)]_vars

\* C2: a completed job has a transcript and completedChunks = totalChunks.
C2_CompletedHasTranscriptAndAllChunks ==
  \A j \in DOMAIN transcriptions :
    transcriptions[j].status = "completed"
    => /\ ~IsNull(transcriptions[j].transcriptionText)
       /\ ~IsNull(transcriptions[j].totalChunks)
       /\ transcriptions[j].completedChunks = Val(transcriptions[j].totalChunks)

C2_Witness ==
  \E j \in DOMAIN transcriptions :
    /\ transcriptions[j].status = "completed"
    /\ transcriptions[j].totalChunks = Some(MaxChunks)
    /\ MaxChunks > 1

\* C3: a job whose status is error carries no transcript.
C3_ErrorHasNoTranscript ==
  \A j \in DOMAIN transcriptions :
    transcriptions[j].status = "error"
    => IsNull(transcriptions[j].transcriptionText)

\* credits taken from the balance by the deductCredits calls that succeeded
DeductedFor(j) == IF proc[j].settled = "deduct" THEN proc[j].pageCount ELSE 0

RECURSIVE SumDeducted(_)
SumDeducted(n) ==
  IF n < FirstId THEN 0 ELSE DeductedFor(n) + SumDeducted(n - 1)

\* C4: credit deduction is atomic with respect to the balance: when the
\* deductCredits calls of concurrent jobs of a user have all succeeded, the
\* balance is the initial balance minus every deducted amount.
C4_NoLostDeduction ==
  \A u \in Users :
    (\A j \in JobIds : proc[j].pc # "deductWrite")
    => users[u].credits = granted[u] - SumDeducted(MaxJobs)

\* The settlement of routes.ts lines 938-943 run once more, on its own, for
\* job j in the current state: the users table it leaves.
SettleAgain(j) ==
  LET u == proc[j].userId
  IN  IF proc[j].useFreeCredit
        THEN markFreeTranscriptionUsed(users, u)
        ELSE IF DeductCreditsThrows(users[u].credits, proc[j].pageCount)
               THEN users
               ELSE DeductCreditsUpdate(users, u, users[u].credits,
                                        proc[j].pageCount)

\* C5: settlement happens exactly once per successful job: a job that ends
\* completed had exactly one ledger mutation (the free-trial flag, or a
\* deduction of its pageCount), and running the settlement again for the
\* settled job takes nothing more from the user.
C5_SettledExactlyOnce ==
  \A j \in DOMAIN transcriptions :
    (transcriptions[j].status = "completed" /\ proc[j].pc = "done")
    => /\ ledgerCalls[j] = 1
       /\ proc[j].settled = "deduct"
            => transcriptions[j].pageCount = Some(proc[j].pageCount)
       /\ SettleAgain(j) = users

\* C5, first half only: one ledger mutation per job that ends completed.
C5_OneLedgerCallPerCompletedJob ==
  \A j \in DOMAIN transcriptions :
    (transcriptions[j].status = "completed" /\ proc[j].pc = "done")
    => ledgerCalls[j] = 1

\* C6: the free trial is a one-time allowance: at most one job of a user is
\* processed as a free-trial job.
C6_AtMostOneFreeTrialJob ==
  \A u \in Users :
    Cardinality({ j \in JobIds : /\ Started(j)
                                 /\ proc[j].userId = u
                                 /\ proc[j].useFreeCredit }) <= 1

\* the steps a ChunkProgress entry may take
ChunkStep(old, new) ==
  \/ new = old
  \/ old = "pending" /\ new = "processing"
  \/ old = "processing" /\ new \in {"completed", "error"}

\* C7: each ChunkProgress entry changes only along pending -> processing ->
\* (completed | error): entries are never dropped, reset or moved back, and
\* none goes from pending straight to completed or error.
C7_ChunkStatusMonotonic ==
  [][\A j \in JobIds :
       (HasChunkState(j) /\ j \in DOMAIN transcriptions')
       => /\ ~IsNull(transcriptions'[j].chunkProgress)
          /\ Len(ChunkStateOfNext(j)) = Len(ChunkStateOf(j))
          /\ \A k \in 1..Len(ChunkStateOf(j)) :
               ChunkStep(ChunkStateOf(j)[k].status,
                         ChunkStateOfNext(j)[k].status)]_vars

C7_Witness ==
  \E j \in JobIds :
    /\ HasChunkState(j)
    /\ Len(ChunkStateOf(j)) > 1
    /\ ChunkStateOf(j)[1].status = "completed"
    /\ ChunkStateOf(j)[2].status = "error"

\* C8: once the chunk state of a job is initialised, completedChunks is the
\* number of entries whose status is completed, and it is at most totalChunks.
C8_CompletedChunksIsCount ==
  \A j \in JobIds :
    HasChunkState(j)
    => /\ transcriptions[j].completedChunks
            = Cardinality(WithStatus(ChunkStateOf(j), "completed"))
       /\ ~IsNull(transcriptions[j].totalChunks)
       /\ transcriptions[j].completedChunks
            <= Val(transcriptions[j].totalChunks)

C8_Witness ==
  \E j \in JobIds :
    /\ HasChunkState(j)
    /\ transcriptions[j].completedChunks = 1
    /\ WithStatus(ChunkStateOf(j), "processing") # {}

\* C9: before any chunk is marked processing or sent to the transcriber the
\* job is persisted with one pending entry per chunk of the splitter (entry i
\* has chunkIndex i and that chunk's startOffset), totalChunks the number of
\* chunks and completedChunks 0; afterwards chunkProgress keeps the length
\* totalChunks.
C9_ChunkStateInitialisedFirst ==
  \A j \in JobIds :
    /\ (Exists(j) /\ proc[j].pc \in {"loop", "transcribe", "markCompleted",
                                     "markError"})
       => /\ HasChunkState(j)
          /\ transcriptions[j].totalChunks = Some(Len(proc[j].chunks))
          /\ Len(ChunkStateOf(j)) = Len(proc[j].chunks)
          /\ \A k \in 1..Len(proc[j].chunks) :
               /\ ChunkStateOf(j)[k].chunkIndex = k - 1
               /\ ChunkStateOf(j)[k].totalChunks = Len(proc[j].chunks)
               /\ ChunkStateOf(j)[k].startOffset = proc[j].chunks[k]
          /\ (proc[j].pc = "loop" /\ proc[j].i = 0)
             => /\ \A k \in 1..Len(proc[j].chunks) :
                     ChunkStateOf(j)[k].status = "pending"
                /\ transcriptions[j].completedChunks = 0
    /\ (Exists(j) /\ ~HasChunkState(j))
       => proc[j].pc \in {"prepare", "init", "catch", "failed"}
    /\ HasChunkState(j)
       => transcriptions[j].totalChunks = Some(Len(ChunkStateOf(j)))

C9_Witness ==
  \E j \in JobIds :
    /\ HasChunkState(j)
    /\ proc[j].pc = "transcribe"
    /\ proc[j].i = 1
    /\ ChunkStateOf(j)[2].startOffset = CHUNK_DURATION_SECONDS

\* C10: chunks of a job are processed one at a time and in index order: at
\* most one entry is processing, and while entry i is processing every
\* earlier entry is completed and every later entry is pending.
C10_SequentialInIndexOrder ==
  \A j \in JobIds :
    HasChunkState(j)
    => LET cp == ChunkStateOf(j)
       IN  /\ Cardinality(WithStatus(cp, "processing")) <= 1
           /\ \A k \in WithStatus(cp, "processing") :
                /\ \A m \in 1..(k - 1) : cp[m].status = "completed"
                /\ \A m \in (k + 1)..Len(cp) : cp[m].status = "pending"

C10_Witness ==
  \E j \in JobIds :
    /\ HasChunkState(j)
    /\ Len(ChunkStateOf(j)) > 1
    /\ ChunkStateOf(j)[2].status = "processing"

Finished(j) == proc[j].pc \in {"done", "failed"}

\* C11: when the transcription call of chunk k has failed, chunk k is
\* persisted with status error and the error's message, every chunk before k
\* stays completed, no chunk after k is ever started (it stays pending), and
\* the job ends with status error.
C11_ChunkFailureStopsTheLoop ==
  \A j \in JobIds :
    (~IsNull(proc[j].chunkError) /\ proc[j].pc # "markError"
       /\ HasChunkState(j))
    => LET cp == ChunkStateOf(j)
           k  == Val(proc[j].chunkError) + 1
       IN  /\ cp[k].status = "error"
           /\ "error" \in DOMAIN cp[k]
           /\ \A m \in 1..Len(cp) :
                 /\ m < k => cp[m].status = "completed"
                 /\ m > k => cp[m].status = "pending"
           /\ proc[j].pc \in {"catch", "failed"}
           /\ Finished(j) => transcriptions[j].status = "error"

C11_Witness ==
  \E j \in JobIds :
    /\ proc[j].pc = "failed"
    /\ proc[j].chunkError = Some(0)
    /\ HasChunkState(j)
    /\ Len(ChunkStateOf(j)) > 1
    /\ transcriptions[j].status = "error"

\* C12: after a successful run completedChunks equals totalChunks; after an
\* aborted run it is the number of chunks whose status is completed and is
\* strictly less than totalChunks.
C12_CompletedChunksAtTermination ==
  \A j \in JobIds :
    HasChunkState(j)
    => LET row == transcriptions[j]
       IN  /\ proc[j].pc = "done"
                => row.completedChunks = Val(row.totalChunks)
           /\ proc[j].pc = "failed"
                => /\ row.completedChunks = CountCompleted(ChunkStateOf(j))
                   /\ row.completedChunks < Val(row.totalChunks)

\* C13: a run that ends in error has consumed nothing: the user's credits and
\* free-transcription flag are what they were before the run.
C13_FailedRunConsumesNothing ==
  LET j == FirstId
      u == proc[j].userId
  IN  proc[j].pc = "failed"
      => /\ ledgerCalls[j] = 0
         /\ users[u].credits = granted[u]
         /\ users[u].freeTranscriptionUsed = ~proc[j].useFreeCredit

C13_Witness ==
  /\ proc[FirstId].pc = "failed"
  /\ Exists(FirstId)
  /\ ~IsNull(transcriptions[FirstId].transcriptionText)
  /\ users[proc[FirstId].userId].credits > 0

CeilDiv(d, c) == CHOOSE n \in 0..d : n * c >= d /\ (n - 1) * c < d

\* C16: splitAudioIntoChunks returns exactly one chunk, the input path at
\* offset 0, when the probed duration d is at most the chunk length c
\* (d = 0 from a failed probe included); otherwise it returns ceil(d / c)
\* chunks with offsets 0, c, 2c, ..., (n - 1) c.
C16_SplitterChunkPlan ==
  sp.pc = "returned"
  => LET d == sp.duration
         c == sp.chunkDuration
     IN  IF d <= c
           THEN sp.chunks = << [path |-> sp.filePath, startOffset |-> 0] >>
           ELSE /\ Len(sp.chunks) = CeilDiv(d, c)
                /\ \A k \in 1..Len(sp.chunks) :
                     /\ sp.chunks[k].startOffset = (k - 1) * c
                     /\ sp.chunks[k].path = ChunkPath(sp.filePath, k - 1)

C16_Witness ==
  /\ sp.pc = "returned"
  /\ sp.duration > sp.chunkDuration
  /\ sp.duration % sp.chunkDuration # 0
  /\ Len(sp.chunks) > 2

\* the failed probe of a long file: one chunk, the file itself
C16_WitnessFailedProbe ==
  /\ sp.pc = "returned"
  /\ sp.duration = 0
  /\ sp.audio > sp.chunkDuration
  /\ Len(sp.chunks) = 1

\* segments[i].start <= segments[i+1].start for all i
TimeOrdered(segments) ==
  \A i \in 1..(Len(segments) - 1) : segments[i].start <= segments[i + 1].start

\* no segment ends before an earlier segment of the list
EndsNonDecreasing(segments) ==
  \A i \in 1..(Len(segments) - 1) : segments[i].end <= segments[i + 1].end

\* The output segment that input segment i was merged into: a new output
\* segment begins at every input segment whose minute differs from the
\* minute of the one before it.
GroupOf(segments, i) ==
  1 + Cardinality({ j \in 2..i :
                      MinuteOf(segments[j]) # MinuteOf(segments[j - 1]) })

\* the last input segment merged into the output segment of input segment i
LastOfGroup(segments, i) ==
  CHOOSE k \in i..Len(segments) :
    /\ GroupOf(segments, k) = GroupOf(segments, i)
    /\ \A m \in (k + 1)..Len(segments) :
         GroupOf(segments, m) # GroupOf(segments, i)

\* C19 as stated: groupSegmentsByMinute returns the empty list for an empty
\* input, never returns more segments than it was given, preserves
\* chronological order, and every merged segment's end is >= the end of
\* every input segment merged into it.
C19_GroupingAsStated ==
  seg.pc = "grouped"
  => /\ seg.segments = << >> => seg.grouped = << >>
     /\ Len(seg.grouped) <= Len(seg.segments)
     /\ TimeOrdered(seg.segments) => TimeOrdered(seg.grouped)
     /\ \A i \in 1..Len(seg.segments) :
          /\ GroupOf(seg.segments, i) \in 1..Len(seg.grouped)
          /\ seg.grouped[GroupOf(seg.segments, i)].end >= seg.segments[i].end

\* C19, amended: groupSegmentsByMinute returns the empty list for an empty
\* input, never returns more segments than it was given and preserves
\* chronological order; a merged segment's end is the end of the last input
\* segment merged into it, which is >= the end of every input segment merged
\* into it when no input segment ends before an earlier one.
C19_GroupingEndIsLastEnd ==
  seg.pc = "grouped"
  => /\ seg.segments = << >> => seg.grouped = << >>
     /\ Len(seg.grouped) <= Len(seg.segments)
     /\ TimeOrdered(seg.segments) => TimeOrdered(seg.grouped)
     /\ \A i \in 1..Len(seg.segments) :
          LET merged == seg.grouped[GroupOf(seg.segments, i)]
          IN  /\ GroupOf(seg.segments, i) \in 1..Len(seg.grouped)
              /\ merged.end
                   = seg.segments[LastOfGroup(seg.segments, i)].end
              /\ EndsNonDecreasing(seg.segments)
                   => merged.end >= seg.segments[i].end

C19_Witness ==
  /\ seg.pc = "grouped"
  /\ Len(seg.segments) = 3
  /\ Len(seg.grouped) = 2
  /\ TimeOrdered(seg.segments)
  /\ EndsNonDecreasing(seg.segments)
  /\ seg.segments[1].end < seg.segments[2].end
  /\ seg.grouped[1].end = seg.segments[2].end

\* the non-empty whitespace-separated tokens of a text, counted at their ends
TokenCount(t) ==
  Cardinality({ k \in 1..Len(t) :
                  t[k] # " " /\ (k = Len(t) \/ t[k + 1] = " ") })

\* C18: the persisted wordCount is the number of non-empty
\* whitespace-separated tokens of the persisted transcriptionText and the
\* persisted pageCount is ceil(wordCount / 250), 0 for no words, both when
\* the pipeline completes and after any edit saved through PUT.
C18_CountsMatchText ==
  \A j \in DOMAIN transcriptions :
    LET row == transcriptions[j]
    IN  IF IsNull(row.transcriptionText)
          THEN IsNull(row.wordCount) /\ IsNull(row.pageCount)
          ELSE /\ row.wordCount = Some(TokenCount(Val(row.transcriptionText)))
               /\ row.pageCount
                    = Some(CeilDiv(Val(row.wordCount), WordsPerPage))
               /\ Val(row.wordCount) = 0 => Val(row.pageCount) = 0

C18_Witness ==
  \E j \in DOMAIN transcriptions :
    /\ proc[j].pc = "done"
    /\ transcriptions[j].status = "completed"
    /\ transcriptions[j].transcriptionText
         = Some(<< " ", "a", " ", " ", "a" >>)
    /\ transcriptions[j].wordCount = Some(2)
    /\ transcriptions[j].pageCount = Some(1)

\* the pipeline's own completion, with more than a page of words
C18_WitnessPipeline ==
  \E j \in DOMAIN transcriptions :
    /\ proc[j].pc = "settle"
    /\ Val(transcriptions[j].wordCount) = 2 * (WordsPerPage + 1)
    /\ transcriptions[j].pageCount = Some(3)

WholeFileFinished == ta.pc \in {"done", "failed"}

\* C15: clean-up is unconditional: when a transcription task has terminated,
\* on success and on every failure path, the temporary chunk files, the
\* converted file when it is not the upload itself, and the upload are gone.
C15_NoFileLeftBehind ==
  /\ \A j \in JobIds : Finished(j) => \A f \in files : f.job # j
  /\ WholeFileFinished => \A f \in files : f.job # ta.id

\* C17: the segment list got by concatenating the chunks' segment lists in
\* chunk order is time-ordered, each chunk's segments being in order, within
\* the chunk and re-based by the chunk's start offset.
C17_ConcatenationIsTimeOrdered ==
  TimeOrdered(ta.allSegments)

C17_Witness ==
  /\ ta.pc = "identify"
  /\ Len(ta.chunks) > 1
  /\ Len(ta.allSegments) > 2
  /\ ta.allSegments[1].start < CHUNK_DURATION_SECONDS
  /\ ta.allSegments[Len(ta.allSegments)].start > CHUNK_DURATION_SECONDS
  /\ TimeOrdered(ta.allSegments)

Unlabeled(segments) ==
  \A k \in 1..Len(segments) : IsNull(segments[k].speaker)

\* C20: when the language-model call fails or its answer is not JSON,
\* identifySpeakers returns the segments it was given, none of them
\* labelled, and throws nothing: transcribeAudio returns, the job is
\* written completed, and every segment of the result is unlabelled.
C20_AttributionIsBestEffort ==
  ta.llm \in {"error", "malformed"}
  => /\ ta.segmentsWithSpeakers = ta.allSegments
     /\ Unlabeled(ta.segmentsWithSpeakers)
     /\ ~IsNull(ta.result)
     /\ Unlabeled(Val(ta.result).segments)
     /\ ta.pc \in {"update", "settle", "done", "catch", "failed"}
     /\ ta.pc # "update"
          => ~IsNull(transcriptions[ta.id].transcriptionText)
     /\ ta.pc \in {"settle", "done"}
          => transcriptions[ta.id].status = "completed"

C20_Witness ==
  /\ ta.llm = "malformed"
  /\ ta.pc = "done"
  /\ transcriptions[ta.id].status = "completed"
  /\ Len(ta.allSegments) > 1
  /\ Unlabeled(Val(ta.result).segments)

(***************************************************************************)
(* The segment list of a completed job                                     *)
(***************************************************************************)
\* the segments persisted with the first n chunks, in chunk order
RECURSIVE ConcatSegments(_, _)
ConcatSegments(cp, n) ==
  IF n = 0 THEN << >>
  ELSE ConcatSegments(cp, n - 1)
         \o (IF "segments" \in DOMAIN cp[n] THEN cp[n].segments ELSE << >>)

\* C21: after all chunks succeed, the segment list persisted on the completed
\* job is the output of the Speaker Attributor followed by the Segment
\* Compactor applied to the concatenated chunk segments, so that no two
\* consecutive persisted segments start in the same minute.
C21_PersistedSegmentsAreCompacted ==
  \A j \in DOMAIN transcriptions :
    LET row == transcriptions[j]
    IN  (/\ row.status = "completed"
         /\ ~IsNull(row.segments)
         /\ ~IsNull(row.chunkProgress))
        => LET segments == Val(row.segments)
               cp == Val(row.chunkProgress)
               raw == ConcatSegments(cp, Len(cp))
           IN  /\ \A k \in 1..(Len(segments) - 1) :
                    MinuteOf(segments[k]) # MinuteOf(segments[k + 1])
               /\ \E reply \in LlmReplies :
                    segments = groupSegmentsByMinute(identifySpeakers(raw, reply))

\* the input segments merged into output segment g
MembersOf(segments, g) ==
  { i \in 1..Len(segments) : GroupOf(segments, i) = g }

\* C22: a segment produced by groupSegmentsByMinute keeps a speaker label S
\* only if all input segments merged into it carry the same label S; if any
\* two consecutive merged segments disagree on speaker (one labelled and one
\* unlabelled included), the merged segment has no speaker label.
C22_LabelOnlyIfUnanimous ==
  seg.pc = "grouped"
  => \A g \in 1..Len(seg.grouped) :
       LET members == MembersOf(seg.segments, g)
       IN  /\ ~IsNull(seg.grouped[g].speaker)
                => \A i \in members :
                     seg.segments[i].speaker = seg.grouped[g].speaker
           /\ (\E i \in members :
                 /\ i + 1 \in members
                 /\ seg.segments[i].speaker # seg.segments[i + 1].speaker)
                => IsNull(seg.grouped[g].speaker)

\* floor(start / 60), as the b with 60 b <= start < 60 (b + 1)
BucketOf(start) ==
  CHOOSE b \in 0..start : 60 * b <= start /\ start < 60 * (b + 1)

\* the input segments at which a run of one bucket begins
RunStarts(segments) ==
  { i \in 1..Len(segments) :
      i = 1 \/ BucketOf(segments[i].start) # BucketOf(segments[i - 1].start) }

\* the last input segment of the run that begins at a
RunEnd(segments, a) ==
  CHOOSE b \in a..Len(segments) :
    /\ \A k \in (a + 1)..b : k \notin RunStarts(segments)
    /\ b = Len(segments) \/ b + 1 \in RunStarts(segments)

\* the texts of segments a..b with one space between two texts
RECURSIVE JoinedText(_, _, _)
JoinedText(segments, a, b) ==
  IF a = b THEN segments[a].text
  ELSE JoinedText(segments, a, b - 1) \o << " " >> \o segments[b].text

\* C23: groupSegmentsByMinute merges a segment into the previous output
\* segment exactly when both have the same bucket floor(start / 60), joining
\* the texts with a single space and keeping the first segment's start; the
\* segments {5,10,A}, {50,55,A}, {70,75,B} yield {start 5, end 55, speaker A}
\* and {start 70, end 75, speaker B}.
C23_MergesExactlyWithinBucket ==
  seg.pc = "grouped"
  => /\ Len(seg.grouped) = Cardinality(RunStarts(seg.segments))
     /\ \A a \in RunStarts(seg.segments) :
          LET g == Cardinality({ k \in RunStarts(seg.segments) : k <= a })
          IN  /\ seg.grouped[g].start = seg.segments[a].start
              /\ seg.grouped[g].text
                   = JoinedText(seg.segments, a, RunEnd(seg.segments, a))
     /\ seg.segments = ScenarioD
          => seg.grouped
               = << [start |-> 5, end |-> 55, text |-> << "a", " ", "b" >>,
                     speaker |-> Some("Entrevistador")],
                    [start |-> 70, end |-> 75, text |-> << "c" >>,
                     speaker |-> Some("Entrevistado 1")] >>

C23_Witness ==
  /\ seg.pc = "grouped"
  /\ seg.segments = ScenarioD
  /\ Len(seg.grouped) = 2

\* C24: transcribeChunkWithTimestamps returns, for a chunk with start offset
\* o, exactly one segment per raw API segment in the same order, with start =
\* raw start + o and end = raw end + o (a timestamp the API left out counts
\* as 0), so start <= end is preserved for every segment and every returned
\* start is >= o.
C24_SegmentsShiftedByOffset ==
  tc.pc = "returned"
  => LET raw == IF IsNull(tc.segments) THEN << >> ELSE Val(tc.segments)
         o == tc.startOffset
     IN  /\ Len(tc.result) = Len(raw)
         /\ \A k \in 1..Len(raw) :
              LET rawStart == IF raw[k].start = None THEN 0
                              ELSE Val(raw[k].start)
                  rawEnd == IF raw[k].end = None THEN 0 ELSE Val(raw[k].end)
              IN  /\ tc.result[k].start = rawStart + o
                  /\ tc.result[k].end = rawEnd + o
                  /\ rawStart <= rawEnd
                       => tc.result[k].start <= tc.result[k].end
                  /\ tc.result[k].start >= o

C24_Witness ==
  /\ tc.pc = "returned"
  /\ tc.startOffset = CHUNK_DURATION_SECONDS
  /\ Len(tc.result) = 2
  /\ tc.segments = Some(<< RawSegment(0, 30), RawSegment(30, 70) >>)
  /\ tc.result[2].start = CHUNK_DURATION_SECONDS + 30
  /\ tc.result[2].end = CHUNK_DURATION_SECONDS + 70

\* the texts persisted with the first n chunks with one space between two
\* of them
RECURSIVE JoinTexts(_, _)
JoinTexts(cp, n) ==
  IF n = 0 THEN << >>
  ELSE IF n = 1 THEN cp[1].text
  ELSE JoinTexts(cp, n - 1) \o << " " >> \o cp[n].text

\* C25: the full transcript text of a completed job equals the chunk texts
\* joined with a single space in chunk index order, for every list of chunk
\* texts, lists with an empty chunk text included.
C25_TextIsSpaceJoinedChunks ==
  \A j \in DOMAIN transcriptions :
    LET row == transcriptions[j]
    IN  (/\ row.status = "completed"
         /\ ~IsNull(row.transcriptionText)
         /\ ~IsNull(row.chunkProgress))
        => LET cp == Val(row.chunkProgress)
           IN  (\A k \in 1..Len(cp) : "text" \in DOMAIN cp[k])
               => Val(row.transcriptionText) = JoinTexts(cp, Len(cp))

\* the labels the language model returned for the segment of index i
ReturnedLabels(reply, i) ==
  IF reply.kind # "json" THEN {}
  ELSE { reply.speakers[k].speaker :
           k \in { m \in 1..Len(reply.speakers) :
                     /\ reply.speakers[m].index = i
                     /\ reply.speakers[m].speaker # "" } }

\* C26: identifySpeakers returns a list of the same length and order as its
\* input in which each segment's start, end and text are unchanged; segment
\* i gets the label the model returned for index i, and a segment for which
\* no label was returned keeps the label it already had.
C26_OnlyLabelsChange ==
  ids.pc = "returned"
  => /\ Len(ids.result) = Len(ids.segments)
     /\ \A k \in 1..Len(ids.segments) :
          LET returned == ReturnedLabels(ids.reply, k - 1)
          IN  /\ ids.result[k].start = ids.segments[k].start
              /\ ids.result[k].end = ids.segments[k].end
              /\ ids.result[k].text = ids.segments[k].text
              /\ returned = {}
                   => ids.result[k].speaker = ids.segments[k].speaker
              /\ returned # {}
                   => ids.result[k].speaker \in { Some(l) : l \in returned }

C26_Witness ==
  /\ ids.pc = "returned"
  /\ Len(ids.segments) = 2
  /\ ids.segments[1].start < ids.segments[2].start
  /\ ids.segments[1].speaker = Some("Entrevistado 1")
  /\ ids.result[1].speaker = Some("Entrevistador")
  /\ ids.segments[2].speaker = Some("Entrevistado 1")
  /\ ids.result[2].speaker = Some("Entrevistado 1")

\* C27: deductCredits(userId, amount) fails when the balance it finds is less
\* than amount, and only then, and leaves the balance unchanged when it
\* fails; after any sequence and interleaving of deductCredits and addCredits
\* calls the balance is never negative.
C27_LedgerNeverNegative ==
  [][ /\ \A c \in 1..MaxCalls :
           (ledger[c].pc # "write" /\ ledger'[c] # ledger[c])
           => /\ ledger'[c].pc = "thrown"
                   <=> \E u \in Users : users[u].credits < ledger'[c].amount
              /\ ledger'[c].pc = "thrown" => users' = users
      /\ \A u \in Users : users'[u].credits >= 0 ]_vars

C27_Witness ==
  /\ ledger[1].pc = "thrown"
  /\ ledger[1].amount = 2
  /\ ledger[2].pc = "returned"
  /\ ledger[2].amount = 1
  /\ users["u1"].credits = 0

\* two calls have read the same balance and both go on to write
C27_WitnessInterleaved ==
  /\ ledger[1].pc = "write"
  /\ ledger[2].pc = "write"
  /\ ledger[1].currentCredits = ledger[2].currentCredits
  /\ ledger[1].amount + ledger[2].amount > users["u1"].credits

\* C28: every credit deduction or free-trial consumption made by the pipeline
\* is for a job whose record exists with status completed at the moment of
\* the deduction, in every interleaving with the owner's DELETE request.
C28_ChargedOnlyForExistingCompletedJob ==
  [][ \A j \in JobIds :
        ledgerCalls'[j] # ledgerCalls[j]
        => /\ Exists(j)
           /\ transcriptions[j].status = "completed" ]_vars

Terminal(j) == Exists(j) /\ transcriptions[j].status \in {"completed", "error"}

\* C29: every job started by processTranscriptionProgressive eventually
\* reaches a terminal persisted status, completed or error, when every
\* external call (prepare, transcribe, storage) eventually returns or throws:
\* no job is left forever in preparing or processing.
C29_EveryJobReachesTerminalStatus ==
  \A j \in JobIds : Started(j) ~> (~Exists(j) \/ Terminal(j))

\* C30: a client that opens the job detail view right after upload and
\* follows the page's polling rule eventually observes the job's terminal
\* status, whichever status its first fetch returns.
C30_ClientObservesTerminalStatus ==
  (client.pc # "closed")
    ~> (client.status \in {Some("completed"), Some("error")})

====
